---- MODULE Spec2Model ----
(***************************************************************************)
(* A model of the three scripts of the repository:                         *)
(*                                                                         *)
(*   data.py                     find_valid_time (tornado-report cleaner)  *)
(*   download-GEFSV12-v0.1.py    download and the module's retry loop      *)
(*   process_reforecast_data.py  get_and_process_reforecast_data and       *)
(*                               download_and_process_grib                 *)
(*                                                                         *)
(* The scripts do not communicate, so each has its own specification over  *)
(* its own variables (the other scripts' variables stay at their initial   *)
(* values): SpecValidTime, SpecDownload, SpecPipeline and SpecWorker.      *)
(*                                                                         *)
(* process_reforecast_data.py as committed does not load: line 23 calls    *)
(* logging.get_logger, line 103 holds a doubled comma, os is never         *)
(* imported and click.argument is given help=.  Under those defects no     *)
(* operation exists at all, so the model takes the module as loaded with   *)
(* its names resolved and models each function body's control and data     *)
(* flow as written, the argument list of every call included.              *)
(*                                                                         *)
(* Python's None is the string "None".  Timestamps are whole minutes       *)
(* since a midnight.  A path or object key is a sequence of tokens in      *)
(* which each separator ("/", ".", "_") is a token of its own, so that     *)
(* str.split is computed and not assumed.                                  *)
(***************************************************************************)
EXTENDS Integers, Sequences, FiniteSets, TLC

VARIABLES
    \* data.py
    observation_datetime, observation_valid_time, vt_pc,
    \* download-GEFSV12-v0.1.py
    local, break_file, flag, dl_pc, cursor, sessions, disconnects, retr,
    \* process_reforecast_data.py, get_and_process_reforecast_data
    req, pc, err, days, globbed_list, task, final, unreadable, trace,
    \* process_reforecast_data.py, download_and_process_grib
    files, w_pc, w_key, w_ret, w_skipped, tmp, s3_reads, calls

vtVars == <<observation_datetime, observation_valid_time, vt_pc>>
dlVars == <<local, break_file, flag, dl_pc, cursor, sessions, disconnects, retr>>
plVars == <<req, pc, err, days, globbed_list, task, final, unreadable, trace>>
wkVars == <<files, w_pc, w_key, w_ret, w_skipped, tmp, s3_reads, calls>>
wkOwn == <<w_pc, w_key, w_ret, w_skipped, tmp, s3_reads, calls>>
plOwn == <<req, pc, err, days, globbed_list, task, final, trace>>
vars == <<vtVars, dlVars, plVars, wkVars>>

None == "None"

\* None where a path is expected, and where a RETR is.
NoPath == <<>>
NoRetr == [session |-> 0, file |-> NoPath]

Range(s) == {s[i] : i \in DOMAIN s}

Min2(p) == IF p[1] <= p[2] THEN p[1] ELSE p[2]
Max2(p) == IF p[1] >= p[2] THEN p[1] ELSE p[2]

(***************************************************************************)
(* The initial values of each script's variables.                          *)
(***************************************************************************)
VtIdle ==
    /\ observation_datetime = 0
    /\ observation_valid_time = None
    /\ vt_pc = "off"

DlIdle ==
    /\ local = <<>>
    /\ break_file = NoPath
    /\ flag = TRUE
    /\ dl_pc = "off"
    /\ cursor = 0
    /\ sessions = 0
    /\ disconnects = 0
    /\ retr = NoRetr

PlIdle ==
    /\ req = None
    /\ pc = "off"
    /\ err = None
    /\ days = None
    /\ globbed_list = <<>>
    /\ task = <<>>
    /\ final = None
    /\ trace = <<>>

WkIdle ==
    /\ w_pc = "off"
    /\ w_key = NoPath
    /\ w_ret = NoPath
    /\ w_skipped = FALSE
    /\ tmp = {}
    /\ s3_reads = 0
    /\ calls = 0

(***************************************************************************)
(* data.py: find_valid_time.                                               *)
(***************************************************************************)
MinutesPerHour == 60
HoursPerDay == 24
MinutesPerDay == MinutesPerHour * HoursPerDay

\* The latest observation minute tried.
MaxObsMinute == 2880

\* pandas' Series.dt.ceil(freq): the least multiple of freq that is >= t.
Ceil(t, freq) == IF t % freq = 0 THEN t ELSE ((t \div freq) + 1) * freq

\* pandas' Series.dt.hour.
HourOf(t) == (t \div MinutesPerHour) % HoursPerDay

\* A ceil that rounds to the nearest boundary instead of up.
ValidTimeRounded(t) ==
    LET h6 == t + 6 * MinutesPerHour
        h12 == 12 * MinutesPerHour
        r == ((h6 + (h12 \div 2)) \div h12) * h12
    IN IF HourOf(r) # 0 THEN r ELSE r + h12

\* Lines 50-51: (t + 6H).ceil('12H'), then where(hour != 0, + 12H).
ValidTimeOf(t) ==
    LET valid_times == Ceil(t + 6 * MinutesPerHour, 12 * MinutesPerHour)
    IN IF HourOf(valid_times) # 0 THEN valid_times
       ELSE valid_times + 12 * MinutesPerHour

VtInit ==
    /\ observation_datetime \in 0..MaxObsMinute
    /\ observation_valid_time = None
    /\ vt_pc = "call"
    /\ DlIdle /\ PlIdle /\ WkIdle /\ files = <<>> /\ unreadable = {}

find_valid_time ==
    /\ vt_pc = "call"
    /\ observation_valid_time' = ValidTimeOf(observation_datetime)
    /\ vt_pc' = "done"
    /\ UNCHANGED <<observation_datetime, dlVars, plVars, wkVars>>

VtNext == find_valid_time

SpecValidTime == VtInit /\ [][VtNext]_vars

\* C7: the valid time is at hour 12, never at hour 0, and is the earliest 12:00
\* at or after t + 6 hours (so less than 24 hours after it); 05:00 gives 12:00 of
\* the same day and 15:00 gives 12:00 of the next day.
C7_ValidTimeIsNext12Z ==
    vt_pc = "done" =>
        LET t6 == observation_datetime + 6 * MinutesPerHour
            v == observation_valid_time
        IN /\ HourOf(v) = 12
           /\ v % MinutesPerHour = 0
           /\ v >= t6
           /\ v - t6 < MinutesPerDay
           /\ \A u \in t6..v : (u % MinutesPerDay = 12 * MinutesPerHour) => u = v
           /\ observation_datetime = 5 * MinutesPerHour => v = 12 * MinutesPerHour
           /\ observation_datetime = 15 * MinutesPerHour
                => v = MinutesPerDay + 12 * MinutesPerHour

\* A timestamp whose t + 6 hours rounds up to midnight, pushed 12 hours on.
C7_Witness ==
    /\ vt_pc = "done"
    /\ observation_datetime = 15 * MinutesPerHour
    /\ HourOf(Ceil(observation_datetime + 6 * MinutesPerHour, 12 * MinutesPerHour)) = 0
    /\ observation_valid_time = MinutesPerDay + 12 * MinutesPerHour

(***************************************************************************)
(* download-GEFSV12-v0.1.py: download and the module's retry loop.         *)
(***************************************************************************)
\* The number of days from start_time to end_time, both included
\* (2192 in the script; the model walks a shorter range).
NumDays == 2

\* The most caught disconnects in one run of the script.
MaxDisconnects == 3

\* Line 34: inittime.
inittime == <<0, 6, 12, 18>>

\* Lines 27-29: all_dates, as day offsets from start_time.
all_dates == [d \in 1..NumDays |-> d - 1]

\* Lines 31 and 35: path + "/" + filename of one date and one hour.  The
\* directory names the date and the file name the hour and the date.
PathOf(curr_date, t) ==
    <<"GEFSv12", "/", "reanalysis", "/", "FV3_reanalysis", "/", curr_date,
      "/", "gec00", ".", "t", t, "z", ".", "pgrb2", ".", curr_date,
      ".", "0p25", ".", "f000">>

\* Lines 30-36: the files in the order the two loops visit them.
Visits ==
    [i \in 1..(Len(all_dates) * Len(inittime)) |->
        PathOf(all_dates[((i - 1) \div Len(inittime)) + 1],
               inittime[((i - 1) % Len(inittime)) + 1])]

Files == Range(Visits)

\* os.path.exists.
Exists(disk, f) == disk[f] # "absent"

\* Line 38 without its os.remove.
KeepInterrupted(disk, brk, f) == disk

\* Line 38: the file interrupted in the previous pass is deleted.
RemoveInterrupted(disk, brk, f) ==
    IF Exists(disk, f) /\ brk = f THEN [disk EXCEPT ![f] = "absent"] ELSE disk

DlInit ==
    /\ local \in [Files -> {"absent", "complete"}]
    /\ break_file = NoPath
    /\ flag = TRUE
    /\ dl_pc = "while"
    /\ cursor = 0
    /\ sessions = 0
    /\ disconnects = 0
    /\ retr = NoRetr
    /\ VtIdle /\ PlIdle /\ WkIdle /\ files = <<>> /\ unreadable = {}

\* Line 70: while flag, with the loop's exit.
LoopTest ==
    /\ dl_pc = "while"
    /\ dl_pc' = IF flag THEN "connect" ELSE "done"
    /\ UNCHANGED <<local, break_file, flag, cursor, sessions, disconnects, retr>>
    /\ UNCHANGED <<vtVars, plVars, wkVars>>

\* Lines 22-29: a new session, and the walk starts at the first date.
Connect ==
    /\ dl_pc = "connect"
    /\ sessions' = sessions + 1
    /\ cursor' = 1
    /\ dl_pc' = "pass"
    /\ UNCHANGED <<local, break_file, flag, disconnects, retr>>
    /\ UNCHANGED <<vtVars, plVars, wkVars>>

\* Lines 22-24: FTP() or login() raises; nothing catches it.
ConnectFails ==
    /\ dl_pc = "connect"
    /\ dl_pc' = "crashed"
    /\ UNCHANGED <<local, break_file, flag, cursor, sessions, disconnects, retr>>
    /\ UNCHANGED <<vtVars, plVars, wkVars>>

InPass == dl_pc = "pass" /\ cursor \in DOMAIN Visits

\* Lines 38-41: the file exists after line 38, and is passed over.
SkipExisting ==
    /\ InPass
    /\ LET f == Visits[cursor]
           disk == RemoveInterrupted(local, break_file, f)
       IN /\ Exists(disk, f)
          /\ local' = disk
    /\ cursor' = cursor + 1
    /\ UNCHANGED <<break_file, flag, dl_pc, sessions, disconnects, retr>>
    /\ UNCHANGED <<vtVars, plVars, wkVars>>

\* Lines 38-49: the file is absent after line 38, and RETR delivers all of it.
FetchOK ==
    /\ InPass
    /\ LET f == Visits[cursor]
           disk == RemoveInterrupted(local, break_file, f)
       IN /\ ~Exists(disk, f)
          /\ local' = [disk EXCEPT ![f] = "complete"]
          /\ retr' = [session |-> sessions, file |-> f]
    /\ cursor' = cursor + 1
    /\ UNCHANGED <<break_file, flag, dl_pc, sessions, disconnects>>
    /\ UNCHANGED <<vtVars, plVars, wkVars>>

\* Lines 43-46 and 50-61: open(.., 'wb') has created the file when RETR raises
\* EOFError (lines 50-55) or ConnectionResetError (lines 56-61); download
\* returns (path, True) and line 72 logs the reconnect.
FetchDisconnect ==
    /\ InPass
    /\ disconnects < MaxDisconnects
    /\ \E e \in {"EOFError", "ConnectionResetError"} :
        LET f == Visits[cursor]
            disk == RemoveInterrupted(local, break_file, f)
        IN /\ ~Exists(disk, f)
           /\ local' = [disk EXCEPT ![f] = "partial"]
           /\ retr' = [session |-> sessions, file |-> f]
           /\ break_file' = f
    /\ flag' = TRUE
    /\ disconnects' = disconnects + 1
    /\ dl_pc' = "while"
    /\ UNCHANGED <<cursor, sessions>>
    /\ UNCHANGED <<vtVars, plVars, wkVars>>

\* Lines 43-46: RETR raises anything else (a timeout, an FTP error reply);
\* nothing catches it and the script ends with the file as far as it got.
FetchRaises ==
    /\ InPass
    /\ LET f == Visits[cursor]
           disk == RemoveInterrupted(local, break_file, f)
       IN /\ ~Exists(disk, f)
          /\ local' = [disk EXCEPT ![f] = "partial"]
          /\ retr' = [session |-> sessions, file |-> f]
    /\ dl_pc' = "crashed"
    /\ UNCHANGED <<break_file, flag, cursor, sessions, disconnects>>
    /\ UNCHANGED <<vtVars, plVars, wkVars>>

\* Lines 62-65 and 72: the walk is over; download returns (None, False).
PassComplete ==
    /\ dl_pc = "pass"
    /\ cursor = Len(Visits) + 1
    /\ break_file' = NoPath
    /\ flag' = FALSE
    /\ dl_pc' = "while"
    /\ UNCHANGED <<local, cursor, sessions, disconnects, retr>>
    /\ UNCHANGED <<vtVars, plVars, wkVars>>

DlNext ==
    \/ LoopTest
    \/ Connect
    \/ ConnectFails
    \/ SkipExisting
    \/ FetchOK
    \/ FetchDisconnect
    \/ FetchRaises
    \/ PassComplete

SpecDownload == DlInit /\ [][DlNext]_vars

\* A file of the walk is being fetched in this step.
Fetching(f) == retr' # retr /\ retr'.file = f

\* C5: a disconnect while F is fetched records F and asks for another pass; that
\* pass, in a new session, deletes the partial F and fetches it whole again; no
\* file that was complete is fetched again or changed; and the loop stops only
\* after a pass that walked the whole range without a disconnect.
C5_ResumeFromInterrupted ==
    [][ /\ (dl_pc = "pass" /\ dl_pc' = "while" /\ cursor <= Len(Visits))
            => /\ break_file' = Visits[cursor]
               /\ local'[Visits[cursor]] = "partial"
               /\ flag'
        /\ (InPass /\ break_file = Visits[cursor] /\ local[break_file] = "partial"
              /\ dl_pc' # "crashed")
            => /\ Fetching(break_file)
               /\ retr'.session = disconnects + 1
               /\ (cursor' = cursor + 1 => local'[break_file] = "complete")
        /\ \A f \in Files : local[f] = "complete"
            => local'[f] = "complete" /\ ~Fetching(f)
        /\ (dl_pc = "connect" /\ dl_pc' = "pass") => sessions' = disconnects + 1
        /\ (flag /\ ~flag') => (dl_pc = "pass" /\ cursor = Len(Visits) + 1)
        /\ dl_pc' = "done" => ~flag
      ]_vars

\* The pass after a disconnect has fetched the interrupted file again, whole.
C5_Witness ==
    /\ dl_pc = "pass"
    /\ disconnects = 1
    /\ sessions = 2
    /\ break_file \in Files
    /\ retr = [session |-> 2, file |-> break_file]
    /\ local[break_file] = "complete"

\* C10: short of an uncaught error, the only file that may be partial is the
\* recorded interrupted file, and when the loop has exited every file of the
\* range exists and is complete.
C10_OnlyInterruptedIsPartial ==
    dl_pc # "crashed" =>
        /\ \A f \in Files : local[f] = "partial" => f = break_file
        /\ dl_pc = "done" => \A d \in Range(all_dates) : \A t \in Range(inittime) :
                                 local[PathOf(d, t)] = "complete"

\* The loop has exited after disconnects.
C10_Witness ==
    /\ dl_pc = "done"
    /\ disconnects >= 2
    /\ \A f \in Files : local[f] = "complete"

(***************************************************************************)
(* process_reforecast_data.py: object keys and local output paths.         *)
(***************************************************************************)
\* The last day of January 2000 that a request may name.
MaxDay == 2

\* Line 15.
S3_BUCKET == "noaa-gefs-retrospective"

\* Line 17.
BASE_S3_PREFIX == <<"GEFSv12", "/", "reforecast">>

\* Line 19.
DAYS_PREFIX == [b \in {"1-10", "10-16"} |->
                   IF b = "1-10" THEN "Days:1-10" ELSE "Days:10-16"]

\* Line 180: the default of --local-save-dir.
local_save_dir == <<".", "/", "reforecast_v3">>

\* Members and variable names as a request may give them.
c00 == <<"c00">>
p01 == <<"p01">>
cape_sfc == <<"cape", "_", "sfc">>
pcp_sfc == <<"pcp", "_", "sfc">>

\* "%d" of a day of the month.
TwoDigits == <<"01", "02", "03", "04", "05", "06", "07", "08", "09">>

\* dt.strftime("%Y%m%d00") of a day of January 2000.
Ymd00(dt) == <<"2000", "01", TwoDigits[dt], "00">>

\* Line 197: pd.date_range(start_date, end_date, freq=f'{date_frequency}D').
DateRange(start_date, end_date, date_frequency) ==
    IF end_date < start_date THEN <<>>
    ELSE [i \in 1..(((end_date - start_date) \div date_frequency) + 1) |->
             start_date + (i - 1) * date_frequency]

\* Line 196: the f-string of one object key.
KeyOf(dt, member, bucket, var_name) ==
    <<S3_BUCKET, "/">> \o BASE_S3_PREFIX \o <<"/", "2000", "/">> \o Ymd00(dt)
        \o <<"/">> \o member \o <<"/", bucket, "/">> \o var_name \o <<"_">>
        \o Ymd00(dt) \o <<"_">> \o member \o <<".", "grib2">>

\* Lines 196-198 with the loops over variables and dates exchanged.
GlobbedListVarMajor(dates, var_names, members, bucket) ==
    LET nv == Len(var_names)
        nd == Len(dates)
        nm == Len(members)
    IN [i \in 1..(nd * nv * nm) |->
           KeyOf(dates[(((i - 1) \div nm) % nd) + 1],
                 members[((i - 1) % nm) + 1],
                 bucket,
                 var_names[((i - 1) \div (nd * nm)) + 1])]

\* Lines 196-198: for dt ... for var_name ... for member.
GlobbedList(dates, var_names, members, bucket) ==
    LET nv == Len(var_names)
        nd == Len(dates)
        nm == Len(members)
    IN [i \in 1..(nd * nv * nm) |->
           KeyOf(dates[((i - 1) \div (nv * nm)) + 1],
                 members[((i - 1) % nm) + 1],
                 bucket,
                 var_names[(((i - 1) \div nm) % nv) + 1])]

\* The positions of sep in s.
Seps(s, sep) == {i \in DOMAIN s : s[i] = sep}

\* s.split(sep)[-1].
LastPart(s, sep) ==
    LET at == Seps(s, sep)
        from == IF at = {} THEN 1
                ELSE (CHOOSE i \in at : \A j \in at : j <= i) + 1
    IN SubSeq(s, from, Len(s))

\* s.split(sep)[0].
FirstPart(s, sep) ==
    LET at == Seps(s, sep)
        to == IF at = {} THEN Len(s)
              ELSE (CHOOSE i \in at : \A j \in at : i <= j) - 1
    IN SubSeq(s, 1, to)

\* Line 127.
BaseFileName(s3_prefix) == LastPart(s3_prefix, "/")

\* Line 128: os.path.join(save_dir, f'{base_file_name.split('.')[0]}.nc').
SavedFilePath(s3_prefix, save_dir) ==
    save_dir \o <<"/">> \o FirstPart(BaseFileName(s3_prefix), ".") \o <<".", "nc">>

\* What a local output file holds when its writer was cut short.
Truncated == <<>>

\* The object keys a caller may name: every date, variable and horizon bucket
\* of the control member.
Buckets == {DAYS_PREFIX[b] : b \in DOMAIN DAYS_PREFIX}
WorkerKeys ==
    {KeyOf(dt, c00, b, v) : dt \in 1..MaxDay, b \in Buckets, v \in {cape_sfc, pcp_sfc}}

(***************************************************************************)
(* process_reforecast_data.py: get_and_process_reforecast_data.            *)
(***************************************************************************)
\* The bound pairs a request may give, in either order.
LatitudeChoices ==
    {<<-95, 10>>, <<10, -95>>, <<-90, 10>>, <<10, 90>>, <<22, 55>>, <<55, 22>>}
LongitudeChoices ==
    {<<-10, 50>>, <<0, 50>>, <<291, 230>>, <<50, 360>>}
ForecastDaysChoices ==
    {<<0, 17>>, <<0, 16>>, <<6, 5>>, <<10, 16>>, <<-1, 5>>}

Requests ==
    [latitude_bounds : LatitudeChoices,
     longitude_bounds : LongitudeChoices,
     forecast_days_bounds : ForecastDaysChoices,
     start_date : 1..MaxDay,
     end_date : 1..MaxDay,
     date_frequency : {1, 2},
     members : {<<c00>>, <<c00, p01>>},
     var_names : {<<cape_sfc>>, <<cape_sfc, pcp_sfc>>}]

ValueErrors == {"ValueError: Latitude", "ValueError: Longitude", "ValueError: Forecast"}

\* Lines 186-191 without the longitude check.
ValidationErrorNoLongitude(r) ==
    IF ~(Min2(r.latitude_bounds) > -90 /\ Max2(r.latitude_bounds) < 90)
    THEN "ValueError: Latitude"
    ELSE IF ~(Min2(r.forecast_days_bounds) >= 0 /\ Max2(r.forecast_days_bounds) <= 16)
    THEN "ValueError: Forecast"
    ELSE None

\* Lines 186-191: the ValueError the checks raise, or None.
ValidationError(r) ==
    IF ~(Min2(r.latitude_bounds) > -90 /\ Max2(r.latitude_bounds) < 90)
    THEN "ValueError: Latitude"
    ELSE IF ~(Min2(r.longitude_bounds) >= 0 /\ Max2(r.longitude_bounds) < 360)
    THEN "ValueError: Longitude"
    ELSE IF ~(Min2(r.forecast_days_bounds) >= 0 /\ Max2(r.forecast_days_bounds) <= 16)
    THEN "ValueError: Forecast"
    ELSE None

\* Lines 192-195.
DaysOf(r) ==
    IF Max2(r.forecast_days_bounds) < 10 THEN DAYS_PREFIX["1-10"]
    ELSE DAYS_PREFIX["10-16"]

\* Lines 196-198 for a request.
KeysOf(r) ==
    GlobbedList(DateRange(r.start_date, r.end_date, r.date_frequency),
                r.var_names, r.members, DaysOf(r))

\* The working directory as earlier runs may have left it: empty, or holding
\* the output of one object.
OneOutput(k) == [q \in {SavedFilePath(k, local_save_dir)} |-> k]
SaveDirs == {<<>>, OneOutput(KeyOf(1, c00, DAYS_PREFIX["1-10"], cape_sfc))}

PlInit ==
    /\ req \in Requests
    /\ pc = "call"
    /\ err = None
    /\ days = None
    /\ globbed_list = <<>>
    /\ task = <<>>
    /\ final = None
    /\ unreadable \in {{}} \cup {{KeysOf(req)[i]} : i \in DOMAIN KeysOf(req) \cap {1}}
    /\ trace = <<>>
    /\ files \in SaveDirs
    /\ VtIdle /\ DlIdle /\ WkIdle

\* Lines 186-191.
Validate ==
    /\ pc = "call"
    /\ LET e == ValidationError(req)
       IN IF e # None THEN pc' = "raised" /\ err' = e
          ELSE pc' = "validated" /\ err' = err
    /\ UNCHANGED <<req, days, globbed_list, task, final, unreadable, trace>>
    /\ UNCHANGED <<vtVars, dlVars, wkVars>>

\* Lines 192-198.
Enumerate ==
    /\ pc = "validated"
    /\ days' = DaysOf(req)
    /\ globbed_list' = KeysOf(req)
    /\ trace' = Append(trace, "enumerate")
    /\ pc' = "enumerated"
    /\ UNCHANGED <<req, err, task, final, unreadable>>
    /\ UNCHANGED <<vtVars, dlVars, wkVars>>

\* Line 201: Parallel(...)(delayed(download_and_process_grib)(f) for f in ...)
\* hands every key to the pool.
Dispatch ==
    /\ pc = "enumerated"
    /\ task' = [i \in DOMAIN globbed_list |-> "queued"]
    /\ trace' = Append(trace, "dispatch")
    /\ pc' = "parallel"
    /\ UNCHANGED <<req, err, days, globbed_list, final, unreadable>>
    /\ UNCHANGED <<vtVars, dlVars, wkVars>>

\* The number of workers of the pool (n_jobs=-1: one per processor).
PoolSize == 2

Running(t) == {i \in DOMAIN t : t[i] = "running"}

\* Line 201: a free worker of the pool takes the next key of the list.
TaskStart(i) ==
    /\ pc = "parallel"
    /\ task[i] = "queued"
    /\ \A j \in 1..(i - 1) : task[j] # "queued"
    /\ Cardinality(Running(task)) < PoolSize
    /\ task' = [task EXCEPT ![i] = "running"]
    /\ UNCHANGED <<req, pc, err, days, globbed_list, final, unreadable, trace>>
    /\ UNCHANGED <<vtVars, dlVars, wkVars>>

\* Line 201 against lines 101-104: the worker calls
\* download_and_process_grib(f) with the key alone; latitude_bounds,
\* longitude_bounds, forecast_days_bounds and save_dir have no defaults, so the
\* call raises TypeError before the body runs.
TaskCall(i) ==
    /\ pc = "parallel"
    /\ task[i] = "running"
    /\ task' = [task EXCEPT ![i] = "TypeError"]
    /\ UNCHANGED <<req, pc, err, days, globbed_list, final, unreadable, trace>>
    /\ UNCHANGED <<vtVars, dlVars, wkVars>>

\* Parallel.__call__ returning without waiting for the pool.
ParallelDone(t) == \A i \in DOMAIN t : t[i] # "TypeError"

\* Parallel.__call__ returns once every task has returned.
ParallelReturned(t) == \A i \in DOMAIN t : t[i] = "returned"

\* Line 201: joblib re-raises a task's exception in the caller, drops the
\* tasks still queued and ends its workers.
ParallelRaises ==
    /\ pc = "parallel"
    /\ \E i \in DOMAIN task : task[i] = "TypeError"
    /\ task' = [i \in DOMAIN task |->
                    IF task[i] \in {"queued", "running"} THEN "cancelled" ELSE task[i]]
    /\ pc' = "raised"
    /\ err' = "TypeError"
    /\ UNCHANGED <<req, days, globbed_list, final, unreadable, trace>>
    /\ UNCHANGED <<vtVars, dlVars, wkVars>>

\* Line 201: the call returns the list of results.
ParallelReturns ==
    /\ pc = "parallel"
    /\ ParallelReturned(task)
    /\ pc' = "merge"
    /\ UNCHANGED <<req, err, days, globbed_list, task, final, unreadable, trace>>
    /\ UNCHANGED <<vtVars, dlVars, wkVars>>

\* Line 203: open_mfdataset raises OSError when the glob matches nothing or a
\* file cannot be opened.
MergeRaises ==
    /\ pc = "merge"
    /\ \/ DOMAIN files = {}
       \/ \E q \in DOMAIN files : files[q] = Truncated
    /\ trace' = Append(trace, "read")
    /\ pc' = "raised"
    /\ err' = "OSError"
    /\ UNCHANGED <<req, days, globbed_list, task, final, unreadable>>
    /\ UNCHANGED <<vtVars, dlVars, wkVars>>

\* Lines 203-204: every *.nc of the working directory, combined and saved.
Merge ==
    /\ pc = "merge"
    /\ DOMAIN files # {}
    /\ \A q \in DOMAIN files : files[q] # Truncated
    /\ final' = {files[q] : q \in DOMAIN files}
    /\ trace' = trace \o <<"read", "write">>
    /\ pc' = "done"
    /\ UNCHANGED <<req, err, days, globbed_list, task, unreadable>>
    /\ UNCHANGED <<vtVars, dlVars, wkVars>>

PlNext ==
    \/ Validate
    \/ Enumerate
    \/ Dispatch
    \/ \E i \in DOMAIN task : TaskStart(i)
    \/ \E i \in DOMAIN task : TaskCall(i)
    \/ ParallelRaises
    \/ ParallelReturns
    \/ MergeRaises
    \/ Merge

SpecPipeline == PlInit /\ [][PlNext]_vars

\* C1: in a batch in which exactly one object cannot be fetched or decoded, the
\* run ends without raising and the combined output holds the data of every
\* other object of the batch.
C1_OneFailureTolerated ==
    (/\ pc \in {"raised", "done"}
     /\ err \notin ValueErrors
     /\ Len(KeysOf(req)) >= 2
     /\ Cardinality(unreadable \cap Range(KeysOf(req))) = 1)
    => /\ pc = "done"
       /\ final # None
       /\ \A k \in Range(globbed_list) \ unreadable : k \in final

\* C2: a request whose bounds fail validation raises before any key is
\* enumerated, any worker dispatched and any file read or written; the bounds
\* (-95, 10), (-10, 50) and (0, 17) fail validation.
C2_ValidationBeforeAnyIO ==
    /\ (pc = "raised" /\ err \in ValueErrors)
        => trace = <<>> /\ globbed_list = <<>> /\ task = <<>> /\ final = None
    /\ (\/ req.latitude_bounds = <<-95, 10>>
        \/ req.longitude_bounds = <<-10, 50>>
        \/ req.forecast_days_bounds = <<0, 17>>)
        => /\ pc \in {"call", "raised"}
           /\ pc = "raised" => err \in ValueErrors
           /\ trace = <<>> /\ globbed_list = <<>> /\ task = <<>> /\ final = None

\* Longitude bounds of (-10, 50), alone out of range, have been rejected.
C2_Witness ==
    /\ pc = "raised"
    /\ err = "ValueError: Longitude"
    /\ req.longitude_bounds = <<-10, 50>>
    /\ trace = <<>>

InClosed(p, lo, hi) == lo <= Min2(p) /\ Max2(p) <= hi

\* C3: a request is accepted exactly when its latitude bounds lie in [-90, 90],
\* its longitude bounds in [0, 360) and its forecast-day bounds in [0, 16].
C3_AcceptsTheDocumentedRanges ==
    pc # "call" =>
        ((err \notin ValueErrors) <=>
            /\ InClosed(req.latitude_bounds, -90, 90)
            /\ InClosed(req.longitude_bounds, 0, 360) /\ Max2(req.longitude_bounds) # 360
            /\ InClosed(req.forecast_days_bounds, 0, 16))

\* Where key k stands in the list.
PosOf(k) == CHOOSE i \in DOMAIN globbed_list : globbed_list[i] = k

\* C6: the key list holds one key for each (date, variable, member) of the
\* request and no other, none twice, dates outermost, then variables, then
\* members; 2 dates, 2 variables and 1 member give 4 keys, date-major.
C6_KeysAreTheOrderedProduct ==
    pc = "enumerated" =>
        LET D == {d \in req.start_date..req.end_date :
                     (d - req.start_date) % req.date_frequency = 0}
            V == req.var_names
            M == req.members
            K(d, a, b) == KeyOf(d, M[b], days, V[a])
            T == D \X (DOMAIN V) \X (DOMAIN M)
        IN /\ Len(globbed_list) = Cardinality(D) * Len(V) * Len(M)
           /\ Range(globbed_list) = {K(t[1], t[2], t[3]) : t \in T}
           /\ \A i, j \in DOMAIN globbed_list : i # j => globbed_list[i] # globbed_list[j]
           /\ \A t, u \in T :
                (\/ t[1] < u[1]
                 \/ t[1] = u[1] /\ t[2] < u[2]
                 \/ t[1] = u[1] /\ t[2] = u[2] /\ t[3] < u[3])
                => PosOf(K(t[1], t[2], t[3])) < PosOf(K(u[1], u[2], u[3]))
           /\ (Cardinality(D) = 2 /\ Len(V) = 2 /\ Len(M) = 1)
                => LET d1 == req.start_date
                       d2 == req.start_date + req.date_frequency
                   IN globbed_list = <<K(d1, 1, 1), K(d1, 2, 1), K(d2, 1, 1), K(d2, 2, 1)>>

\* 2 dates, 2 variables and 1 member have been enumerated.
C6_Witness ==
    /\ pc = "enumerated"
    /\ Len(globbed_list) = 4
    /\ Len(req.var_names) = 2
    /\ Len(req.members) = 1

\* C8: the merge reads the working directory only after every dispatched worker
\* has finished, whether it returned or raised.
C8_MergeIsABarrier ==
    (\/ pc \in {"merge", "done"}
     \/ final # None
     \/ \E i \in DOMAIN trace : trace[i] \in {"read", "write"})
    => \A i \in DOMAIN task : task[i] \notin {"queued", "running"}

\* The caller is held in the Parallel call: a worker has finished, by raising,
\* another is still at work, and the merge has not read the directory.
C8_Witness ==
    /\ pc = "parallel"
    /\ \E i \in DOMAIN task : task[i] = "TypeError"
    /\ \E i \in DOMAIN task : task[i] = "running"
    /\ final = None
    /\ \A i \in DOMAIN trace : trace[i] # "read"

(***************************************************************************)
(* process_reforecast_data.py: download_and_process_grib, called with all  *)
(* five arguments by one caller at a time, in a process that may be killed *)
(* and started again.  The selection window (line 132) and the reshaping   *)
(* (lines 142-156) decide no branch of the function and are not modelled.  *)
(***************************************************************************)
\* The most calls of the function in one behaviour.
MaxCalls == 3

\* pathlib.Path(saved_file_path).exists() always answering False.
NeverExists(dir, path) == FALSE

\* Line 129: pathlib.Path(saved_file_path).exists().
OutputExists(dir, path) == path \in DOMAIN dir

\* to_netcdf: the directory with one more file, or that file replaced.
WithFile(dir, path, content) ==
    [q \in DOMAIN dir \cup {path} |-> IF q = path THEN content ELSE dir[q]]

\* Lines 74-98: the dataset of a grib file, or None when the primary decoder
\* and the fallback both fail.
TryToOpenGribFile(k) == IF k \in unreadable THEN None ELSE "ds"

MyPath == SavedFilePath(w_key, local_save_dir)

WkInit ==
    /\ files = <<>>
    /\ unreadable \in {{}} \cup {{KeyOf(1, c00, b, cape_sfc)} : b \in Buckets}
    /\ w_pc = "idle"
    /\ w_key = NoPath
    /\ w_ret = NoPath
    /\ w_skipped = FALSE
    /\ tmp = {}
    /\ s3_reads = 0
    /\ calls = 0
    /\ VtIdle /\ DlIdle /\ PlIdle

\* Lines 101-104: the function is entered with a key.
Call ==
    /\ w_pc \in {"idle", "returned"}
    /\ calls < MaxCalls
    /\ \E k \in WorkerKeys : w_key' = k
    /\ w_pc' = "check"
    /\ w_ret' = NoPath
    /\ w_skipped' = FALSE
    /\ calls' = calls + 1
    /\ UNCHANGED <<files, tmp, s3_reads, unreadable>>
    /\ UNCHANGED <<vtVars, dlVars, plOwn>>

\* Lines 127-133: the output exists and its path is returned, or the function
\* goes on to fetch.
CheckExists ==
    /\ w_pc = "check"
    /\ IF OutputExists(files, MyPath)
       THEN w_pc' = "returned" /\ w_ret' = MyPath /\ w_skipped' = TRUE
       ELSE w_pc' = "fetch" /\ UNCHANGED <<w_ret, w_skipped>>
    /\ UNCHANGED <<files, w_key, tmp, s3_reads, calls, unreadable>>
    /\ UNCHANGED <<vtVars, dlVars, plOwn>>

\* Lines 135-138: the object is read from S3 into the temporary grib file.
Fetch ==
    /\ w_pc = "fetch"
    /\ s3_reads' = s3_reads + 1
    /\ tmp' = tmp \cup {BaseFileName(w_key)}
    /\ w_pc' = "open"
    /\ UNCHANGED <<files, w_key, w_ret, w_skipped, calls, unreadable>>
    /\ UNCHANGED <<vtVars, dlVars, plOwn>>

\* Lines 135-138 and 158-160: the read raises; the temporary directory is
\* removed on the way out, the error is logged and None is returned.
FetchFails ==
    /\ w_pc = "fetch"
    /\ w_key \in unreadable
    /\ s3_reads' = s3_reads + 1
    /\ w_pc' = "returned"
    /\ w_ret' = NoPath
    /\ UNCHANGED <<files, w_key, w_skipped, tmp, calls, unreadable>>
    /\ UNCHANGED <<vtVars, dlVars, plOwn>>

\* Lines 139-141: the grib file is decoded, or None is returned.
Open ==
    /\ w_pc = "open"
    /\ IF TryToOpenGribFile(w_key) = None
       THEN /\ w_pc' = "returned"
            /\ w_ret' = NoPath
            /\ tmp' = tmp \ {BaseFileName(w_key)}
       ELSE /\ w_pc' = "save"
            /\ UNCHANGED <<w_ret, tmp>>
    /\ UNCHANGED <<files, w_key, w_skipped, s3_reads, calls, unreadable>>
    /\ UNCHANGED <<vtVars, dlVars, plOwn>>

\* Lines 142-157 and 161: the dataset is reshaped and written; the path is
\* returned.
Save ==
    /\ w_pc = "save"
    /\ files' = WithFile(files, MyPath, w_key)
    /\ tmp' = tmp \ {BaseFileName(w_key)}
    /\ w_pc' = "returned"
    /\ w_ret' = MyPath
    /\ UNCHANGED <<w_key, w_skipped, s3_reads, calls, unreadable>>
    /\ UNCHANGED <<vtVars, dlVars, plOwn>>

\* Lines 142-160: a step of the reshaping or the write raises; None is
\* returned, and a write that had begun leaves what it wrote.
SaveFails ==
    /\ w_pc = "save"
    /\ files' \in {files, WithFile(files, MyPath, Truncated)}
    /\ tmp' = tmp \ {BaseFileName(w_key)}
    /\ w_pc' = "returned"
    /\ w_ret' = NoPath
    /\ UNCHANGED <<w_key, w_skipped, s3_reads, calls, unreadable>>
    /\ UNCHANGED <<vtVars, dlVars, plOwn>>

\* The process is killed inside the function: nothing is cleaned up, and a
\* write that had begun leaves what it wrote.
Kill ==
    /\ w_pc \in {"check", "fetch", "open", "save"}
    /\ files' \in {files} \cup
                  (IF w_pc = "save" THEN {WithFile(files, MyPath, Truncated)} ELSE {})
    /\ w_pc' = "idle"
    /\ UNCHANGED <<w_key, w_ret, w_skipped, tmp, s3_reads, calls, unreadable>>
    /\ UNCHANGED <<vtVars, dlVars, plOwn>>

WkNext ==
    \/ Call
    \/ CheckExists
    \/ Fetch
    \/ FetchFails
    \/ Open
    \/ Save
    \/ SaveFails
    \/ Kill

SpecWorker == WkInit /\ [][WkNext]_vars

\* C4: a call whose output file exists returns that file's path and fetches
\* nothing, creates no temporary file and leaves the output files as they are;
\* so, whatever runs and kills came before, an object is fetched only when its
\* output file is absent.
C4_ExistingOutputIsReturned ==
    [][ /\ (w_pc = "check" /\ MyPath \in DOMAIN files /\ w_pc' # "idle")
            => /\ w_pc' = "returned"
               /\ w_ret' = MyPath
               /\ s3_reads' = s3_reads
               /\ tmp' = tmp
               /\ files' = files
        /\ s3_reads' # s3_reads => MyPath \notin DOMAIN files
      ]_vars

\* A second call for a key whose output the first call wrote has returned the
\* path without a second fetch.
C4_Witness ==
    /\ w_pc = "returned"
    /\ w_skipped
    /\ calls = 2
    /\ s3_reads = 1
    /\ w_ret = MyPath
    /\ files[MyPath] = w_key

\* C9: distinct object keys have distinct local output paths, so a call that
\* returns early on an existing output finds there the output of its own key.
C9_OutputsAreOneToOneWithKeys ==
    (w_pc = "returned" /\ w_skipped /\ files[MyPath] # Truncated)
        => files[MyPath] = w_key

====
